---- MODULE Spec2Model ----
(***************************************************************************)
(* Model of kuma/attachments/views.py: the three request handlers          *)
(* raw_file, mindtouch_file_redirect and edit_attachment, acting on the    *)
(* persistent store of Attachment and Revision records and the             *)
(* document-attachment links.  One action handles one whole request.       *)
(***************************************************************************)
EXTENDS Integers, Sequences, FiniteSets, TLC

VARIABLES
    attachments,   \* Attachment table: row i has primary key i
    revisions,     \* AttachmentRevision table: row i has primary key i
    links,         \* document-attachment links written by Attachment.attach
    now,           \* the clock that stamps a revision's `created`
    DEBUG,         \* settings.DEBUG
    req,           \* the request handled last
    response,      \* the response it got
    io             \* what that request did to the revision's file

store == <<attachments, revisions, links>>
vars == <<attachments, revisions, links, now, DEBUG, req, response, io>>

----------------------------------------------------------------------------
(* Bounds of the model *)

\* largest number of successful uploads in one behaviour
MaxUploads == 2
\* longest uploaded file, in bytes
MaxFileLen == 3
\* File.DEFAULT_CHUNK_SIZE, scaled down so that files span several chunks
DEFAULT_CHUNK_SIZE == 2

----------------------------------------------------------------------------
(* Values *)

\* a NULL column (primary keys and legacy identifiers start at 1)
NULL == 0

settings_DOMAIN == "developer.example.org"
ATTACHMENT_HOST == "files.example.org"
Hosts == {settings_DOMAIN, ATTACHMENT_HOST}

Users == {"alice", "bob"}
Uploaders == {"alice"}
AnonymousUser == "anonymous"

\* the (locale, slug) paths a request may name; the last names no document
Paths == {[locale |-> "en-US", slug |-> "Web"], [locale |-> "fr", slug |-> "Web"],
          [locale |-> "en-US", slug |-> "Missing"]}
\* the Document table; documents are not created or deleted by these views
Documents == {[locale |-> "en-US", slug |-> "Web"], [locale |-> "fr", slug |-> "Web"]}

Methods == {"GET", "POST"}
Titles == {"logo"}
Filenames == {"logo.png"}

\* the file of n bytes holds the bytes 1..n, so a dropped, repeated or
\* reordered chunk changes the content
FileOf(n) == [i \in 1..n |-> i]

\* request.FILES['file'] / request.POST['title'] when the field is missing
NoFile == [content |-> <<>>, mime_type |-> ""]
NoTitle == ""
\* the files a request may upload: one shorter than a chunk and one that
\* spans several chunks, each with the content type it declares
UploadedFiles ==
    {[content |-> FileOf(1), mime_type |-> "text/plain"],
     [content |-> FileOf(MaxFileLen), mime_type |-> "image/png"]}

NoRequest == [view |-> "none"]
NoDocument == [locale |-> "", slug |-> ""]
\* each header is the set of its values: empty when the header is absent
NoHeaders == [Content_Length |-> {}, Last_Modified |-> {}, X_Frame_Options |-> {},
              Cache_Control |-> {}]
NoContext == [template |-> "", form_title |-> NoTitle, form_file |-> NoFile,
              form_errors |-> {}, document |-> NoDocument]
NoResponse == [kind |-> "none", status |-> 0, location |-> <<>>, body |-> <<>>,
               content_type |-> "", headers |-> NoHeaders, context |-> NoContext]
NoIO == [reads |-> 0, streamed |-> FALSE]

----------------------------------------------------------------------------
(* Collaborators of the views *)

\* kuma.core.utils.is_untrusted: classifies the request by its host
is_untrusted(request) == request.host = ATTACHMENT_HOST

\* kuma.attachments.utils.allow_add_attachment_by: a predicate over the user
allow_add_attachment_by(user) == user \in Uploaders

\* kuma.attachments.utils.convert_to_http_date: a timestamp in seconds
\* formatted as an HTTP date (time of day, GMT)
convert_to_http_date(t) ==
    [hour |-> (t \div 3600) % 24, minute |-> (t % 3600) \div 60,
     second |-> t % 60, tz |-> "GMT"]

\* Attachment.get_file_url: the canonical file URL of attachment pk
get_file_url(pk) == <<"https://", ATTACHMENT_HOST, "files", pk>>

\* Document.get_edit_url
get_edit_url(document) == <<"docs", document.locale, document.slug, "$edit">>

\* the login challenge of login_required
login_url(request) == <<"users", "signin", "next", request.path.locale, request.path.slug>>

\* AttachmentRevisionForm: title and file are required
form_errors(request) ==
    (IF request.title = NoTitle THEN {"title"} ELSE {})
        \cup (IF request.file.content = <<>> THEN {"file"} ELSE {})

is_valid(request) == form_errors(request) = {}

----------------------------------------------------------------------------
(* The revision's file: a storage handle with a read position *)

Min(a, b) == IF a < b THEN a ELSE b

\* file.read(n) at position pos: the data and the new position
read(content, pos, n) ==
    [data |-> SubSeq(content, pos + 1, Min(Len(content), pos + n)),
     pos |-> Min(Len(content), pos + n)]

RECURSIVE read_chunks(_, _)
read_chunks(content, pos) ==
    LET r == read(content, pos, DEFAULT_CHUNK_SIZE)
    IN  IF r.data = <<>> THEN <<>>
        ELSE <<r.data>> \o read_chunks(content, r.pos)

\* File.chunks(): seek(0), then read chunk by chunk until a read is empty
chunks(content, pos) == read_chunks(content, 0)

RECURSIVE join(_)
join(cs) == IF cs = <<>> THEN <<>> ELSE Head(cs) \o join(Tail(cs))

----------------------------------------------------------------------------
(* The store before the first request: an attachment migrated from the     *)
(* legacy system with one revision (a file of exactly one chunk), attached  *)
(* to a document, and an attachment that has no current revision            *)

InitRevisions ==
    << [title |-> "migrated", file |-> FileOf(DEFAULT_CHUNK_SIZE), mime_type |-> "image/gif",
        creator |-> "alice", attachment |-> 1, created |-> 59] >>

InitAttachments ==
    << [title |-> "migrated", mindtouch_attachment_id |-> 2, current_revision |-> 1],
       [title |-> "empty", mindtouch_attachment_id |-> 3, current_revision |-> NULL] >>

InitLinks ==
    {[document |-> [locale |-> "en-US", slug |-> "Web"], attachment |-> 1,
      attached_by |-> "alice", revision |-> 1]}

\* the uploads made so far
uploads == Len(revisions) - Len(InitRevisions)

----------------------------------------------------------------------------
(* HTTP responses *)

Http404 == [NoResponse EXCEPT !.kind = "not_found", !.status = 404]
PermissionDenied == [NoResponse EXCEPT !.kind = "forbidden", !.status = 403]

\* django.shortcuts.redirect(to, permanent)
redirect(to, permanent) ==
    [NoResponse EXCEPT !.kind = "redirect",
                       !.status = IF permanent THEN 301 ELSE 302,
                       !.location = to]

\* xframe_options_sameorigin: a returned response that carries no
\* X-Frame-Options header gets SAMEORIGIN; an exception passes through
xframe_options_sameorigin(resp) ==
    IF resp.kind \in {"not_found", "forbidden"} \/ resp.headers.X_Frame_Options # {}
    THEN resp
    ELSE [resp EXCEPT !.headers.X_Frame_Options = {<<"SAMEORIGIN">>}]

----------------------------------------------------------------------------
(* raw_file *)

\* what the storage answers when asked for the file's size
SizeResults == {"ok", "OSError"}

\* serves with the current_revision check made on the streaming path only
serves_unless_trusted(request) ==
    /\ request.attachment_id \in DOMAIN attachments
    /\ \/ attachments[request.attachment_id].current_revision # NULL
       \/ request.host # ATTACHMENT_HOST

\* get_object_or_404(qs, pk=attachment_id), then the current_revision check
serves(request) ==
    /\ request.attachment_id \in DOMAIN attachments
    /\ attachments[request.attachment_id].current_revision # NULL

\* streaming_content that goes on from where the handle stands
streaming_content_from_position(content, pos) == read_chunks(content, pos)

\* the chunks the transport pulls from StreamingHttpResponse(rev.file) when
\* the handle stands at position pos
streaming_content(content, pos) == chunks(content, pos)

\* stream_raw_file without the except clause: the OSError of the size
\* query reaches the caller
stream_raw_file_unguarded(rev, request) ==
    IF request.size = "OSError"
    THEN [response |-> [NoResponse EXCEPT !.kind = "server_error", !.status = 500],
          io |-> [reads |-> IF DEBUG THEN 1 ELSE 0, streamed |-> FALSE]]
    ELSE [response |->
            [NoResponse EXCEPT
                !.kind = "stream",
                !.status = 200,
                !.body = join(chunks(rev.file, 0)),
                !.content_type = rev.mime_type,
                !.headers = [Content_Length |-> {Len(rev.file)},
                             Last_Modified |-> {convert_to_http_date(rev.created)},
                             X_Frame_Options |-> {<<"ALLOW-FROM", settings_DOMAIN>>},
                             Cache_Control |-> {[public |-> TRUE, max_age |-> 60 * 15]}]],
          io |-> [reads |-> (IF DEBUG THEN 1 ELSE 0) + Len(chunks(rev.file, 0)) + 1,
                  streamed |-> TRUE]]

\* stream_raw_file under cache_control(public=True, max_age=60 * 15): the
\* response, and the reads made on rev.file
stream_raw_file(rev, request) ==
    LET pos == IF DEBUG THEN read(rev.file, 0, DEFAULT_CHUNK_SIZE).pos ELSE 0
        body == streaming_content(rev.file, pos)
    IN  [response |->
            [NoResponse EXCEPT
                !.kind = "stream",
                !.status = 200,
                !.body = join(body),
                !.content_type = rev.mime_type,
                !.headers = [Content_Length |-> IF request.size = "ok"
                                                THEN {Len(rev.file)} ELSE {},
                             Last_Modified |-> {convert_to_http_date(rev.created)},
                             X_Frame_Options |-> {<<"ALLOW-FROM", settings_DOMAIN>>},
                             Cache_Control |-> {[public |-> TRUE, max_age |-> 60 * 15]}]],
         io |-> [reads |-> (IF DEBUG THEN 1 ELSE 0) + Len(body) + 1,
                 streamed |-> TRUE]]

\* raw_file_result with the trust test inverted
raw_file_result_inverted(request) ==
    IF ~serves(request)
    THEN [response |-> Http404, io |-> NoIO]
    ELSE LET attachment == attachments[request.attachment_id]
         IN  IF ~is_untrusted(request)
             THEN stream_raw_file(revisions[attachment.current_revision], request)
             ELSE [response |-> redirect(get_file_url(request.attachment_id), TRUE),
                   io |-> NoIO]

raw_file_result(request) ==
    IF ~serves(request)
    THEN [response |-> Http404, io |-> NoIO]
    ELSE LET attachment == attachments[request.attachment_id]
         IN  IF is_untrusted(request)
             THEN stream_raw_file(revisions[attachment.current_revision], request)
             ELSE [response |-> redirect(get_file_url(request.attachment_id), TRUE),
                   io |-> NoIO]

raw_file ==
    \E attachment_id \in 1..(Len(attachments) + 1), filename \in Filenames,
       host \in Hosts, size \in SizeResults :
        LET request == [view |-> "raw_file", attachment_id |-> attachment_id,
                        filename |-> filename, host |-> host, size |-> size]
            result == raw_file_result(request)
        IN  /\ req' = request
            /\ response' = result.response
            /\ io' = result.io
            /\ UNCHANGED <<attachments, revisions, links, now, DEBUG>>

----------------------------------------------------------------------------
(* mindtouch_file_redirect *)

\* legacy identifiers a request may name
FileIds == 1..3

\* legacy_matches that looks the attachment up by primary key
legacy_matches_by_pk(file_id) == {pk \in DOMAIN attachments : pk = file_id}

\* the attachments whose mindtouch_attachment_id equals file_id (a NULL
\* column matches nothing)
legacy_matches(file_id) ==
    {pk \in DOMAIN attachments :
        /\ attachments[pk].mindtouch_attachment_id # NULL
        /\ attachments[pk].mindtouch_attachment_id = file_id}

mindtouch_file_redirect_result(request) ==
    IF legacy_matches(request.file_id) = {}
    THEN Http404
    ELSE redirect(get_file_url(CHOOSE pk \in legacy_matches(request.file_id) : TRUE), TRUE)

mindtouch_file_redirect ==
    \E file_id \in FileIds, filename \in Filenames :
        LET request == [view |-> "mindtouch_file_redirect", file_id |-> file_id,
                        filename |-> filename]
        IN  /\ req' = request
            /\ response' = mindtouch_file_redirect_result(request)
            /\ io' = NoIO
            /\ UNCHANGED <<attachments, revisions, links, now, DEBUG>>

----------------------------------------------------------------------------
(* edit_attachment *)

is_authenticated(user) == user # AnonymousUser

\* get_object_or_404(Document, locale=document_locale, slug=document_slug)
document_exists(request) == request.path \in Documents

\* edit_attachment_outcome with the permission test ahead of the method test
edit_attachment_outcome_permission_first(request) ==
    IF ~is_authenticated(request.user) THEN "login"
    ELSE IF ~document_exists(request) THEN "not_found"
    ELSE IF ~allow_add_attachment_by(request.user) THEN "forbidden"
    ELSE IF request.method # "POST" THEN "redirect"
    ELSE IF is_valid(request) THEN "created"
    ELSE "render"

\* edit_attachment_outcome without the permission test
edit_attachment_outcome_no_permission(request) ==
    IF ~is_authenticated(request.user) THEN "login"
    ELSE IF ~document_exists(request) THEN "not_found"
    ELSE IF request.method # "POST" THEN "redirect"
    ELSE IF is_valid(request) THEN "created"
    ELSE "render"

\* edit_attachment_outcome that saves whatever the form holds
edit_attachment_outcome_no_validation(request) ==
    IF ~is_authenticated(request.user) THEN "login"
    ELSE IF ~document_exists(request) THEN "not_found"
    ELSE IF request.method # "POST" THEN "redirect"
    ELSE IF ~allow_add_attachment_by(request.user) THEN "forbidden"
    ELSE "created"

\* edit_attachment_outcome with the document lookup ahead of login_required
edit_attachment_outcome_lookup_first(request) ==
    IF ~document_exists(request) THEN "not_found"
    ELSE IF ~is_authenticated(request.user) THEN "login"
    ELSE IF request.method # "POST" THEN "redirect"
    ELSE IF ~allow_add_attachment_by(request.user) THEN "forbidden"
    ELSE IF is_valid(request) THEN "created"
    ELSE "render"

\* which exit of the decorated view a request takes: login_required first,
\* then the document lookup, the method test, the permission test and the
\* form validation
edit_attachment_outcome(request) ==
    IF ~is_authenticated(request.user) THEN "login"
    ELSE IF ~document_exists(request) THEN "not_found"
    ELSE IF request.method # "POST" THEN "redirect"
    ELSE IF ~allow_add_attachment_by(request.user) THEN "forbidden"
    ELSE IF is_valid(request) THEN "created"
    ELSE "render"

\* new_revision that never links the revision to the new attachment
new_revision_unlinked(request, attachment_pk) ==
    [title |-> request.title, file |-> request.file.content,
     mime_type |-> request.file.mime_type, creator |-> request.user,
     attachment |-> NULL, created |-> now]

\* form.save(commit=False), revision.creator = request.user,
\* revision.attachment = attachment; `created` is stamped by revision.save()
new_revision(request, attachment_pk) ==
    [title |-> request.title, file |-> request.file.content,
     mime_type |-> request.file.mime_type, creator |-> request.user,
     attachment |-> attachment_pk, created |-> now]

\* Attachment.objects.create(title=revision.title)
new_attachment(revision) ==
    [title |-> revision.title, mindtouch_attachment_id |-> NULL,
     current_revision |-> NULL]

\* AttachmentRevision.save(): the saved revision becomes the current
\* revision of its attachment
make_current(attachment, revision_pk) ==
    [attachment EXCEPT !.current_revision = revision_pk]

\* attachment.attach(document, request.user, revision)
attach(attachment_pk, document, user, revision_pk) ==
    [document |-> document, attachment |-> attachment_pk, attached_by |-> user,
     revision |-> revision_pk]

\* the response of each exit
edit_attachment_response(request, outcome) ==
    CASE outcome = "login" -> redirect(login_url(request), FALSE)
      [] outcome = "not_found" -> Http404
      [] outcome = "redirect" -> redirect(get_edit_url(request.path), FALSE)
      [] outcome = "forbidden" -> PermissionDenied
      [] outcome = "created" -> redirect(get_edit_url(request.path), FALSE)
      [] outcome = "render" ->
            [NoResponse EXCEPT
                !.kind = "render",
                !.status = 200,
                !.context = [template |-> "attachments/edit_attachment.html",
                             form_title |-> request.title,
                             form_file |-> request.file,
                             form_errors |-> form_errors(request),
                             document |-> request.path]]

edit_attachment ==
    \E user \in Users \cup {AnonymousUser}, method \in Methods, path \in Paths,
       title \in Titles \cup {NoTitle}, file \in UploadedFiles \cup {NoFile} :
        LET request == [view |-> "edit_attachment", user |-> user, method |-> method,
                        path |-> path, title |-> title, file |-> file]
            outcome == edit_attachment_outcome(request)
            attachment_pk == Len(attachments) + 1
            revision_pk == Len(revisions) + 1
            revision == new_revision(request, attachment_pk)
        IN  /\ outcome = "created" => uploads < MaxUploads
            /\ req' = request
            /\ response' = xframe_options_sameorigin(
                               edit_attachment_response(request, outcome))
            /\ io' = NoIO
            /\ IF outcome = "created"
               THEN /\ attachments' = Append(attachments,
                                             make_current(new_attachment(revision),
                                                          revision_pk))
                    /\ revisions' = Append(revisions, revision)
                    /\ links' = links \cup
                                {attach(attachment_pk, request.path, request.user,
                                        revision_pk)}
                    /\ now' = now + 1
               ELSE UNCHANGED <<attachments, revisions, links, now>>
            /\ UNCHANGED DEBUG

----------------------------------------------------------------------------
(* The system *)

Init ==
    /\ attachments = InitAttachments
    /\ revisions = InitRevisions
    /\ links = InitLinks
    /\ now = 60
    /\ DEBUG \in BOOLEAN
    /\ req = NoRequest
    /\ response = NoResponse
    /\ io = NoIO

Next ==
    \/ raw_file
    \/ mindtouch_file_redirect
    \/ edit_attachment

Spec == Init /\ [][Next]_vars

----------------------------------------------------------------------------
(* Vocabulary of the properties, stated on the request and the store       *)
(* rather than through the handlers' own tests                              *)

IsEdit(r) == r.view = "edit_attachment"
IsRawFile(r) == r.view = "raw_file"
IsLegacy(r) == r.view = "mindtouch_file_redirect"

Authenticated(r) == r.user \in Users
Permitted(r) == r.user \in Uploaders
DocumentFound(r) == r.path \in Documents
FormValid(r) == r.title \in Titles /\ r.file \in UploadedFiles

EditUrl(r) == <<"docs", r.path.locale, r.path.slug, "$edit">>
LoginUrl(r) == <<"users", "signin", "next", r.path.locale, r.path.slug>>
CanonicalFileUrl(pk) == <<"https://", ATTACHMENT_HOST, "files", pk>>

Untrusted(r) == r.host = ATTACHMENT_HOST

\* the attachment a raw_file request names exists and has a current revision
HasCurrentRevision(r) ==
    /\ r.attachment_id \in 1..Len(attachments)
    /\ attachments[r.attachment_id].current_revision # NULL

CurrentRevision(r) == revisions[attachments[r.attachment_id].current_revision]

RedirectsTo(resp, status, url) ==
    resp.kind = "redirect" /\ resp.status = status /\ resp.location = url

StoreUnchanged ==
    attachments' = attachments /\ revisions' = revisions /\ links' = links

----------------------------------------------------------------------------
(* C1 *)

\* C1: a POST by an authenticated user with upload permission, for an
\* existing document, with a valid form, adds exactly one Attachment row and
\* exactly one Revision row (the rows that were there stay as they were),
\* the new revision has the requesting user as creator and the new
\* attachment as attachment, the link (document, attachment, user, revision)
\* is added, and the response redirects to the document's edit URL.
C1_ValidUploadCreatesOneOfEach ==
    [][ (IsEdit(req') /\ req'.method = "POST" /\ Authenticated(req')
            /\ Permitted(req') /\ DocumentFound(req') /\ FormValid(req'))
        => LET a == Len(attachments) + 1
               r == Len(revisions) + 1
           IN  /\ Len(attachments') = a
               /\ SubSeq(attachments', 1, Len(attachments)) = attachments
               /\ Len(revisions') = r
               /\ SubSeq(revisions', 1, Len(revisions)) = revisions
               /\ attachments'[a].title = req'.title
               /\ revisions'[r].creator = req'.user
               /\ revisions'[r].attachment = a
               /\ revisions'[r].file = req'.file.content
               /\ links' = links \cup {[document |-> req'.path, attachment |-> a,
                                        attached_by |-> req'.user, revision |-> r]}
               /\ Cardinality(links') = Cardinality(links) + 1
               /\ RedirectsTo(response', 302, EditUrl(req')) ]_vars

\* a second upload has been made, by a permitted user, and redirected
C1_Witness ==
    /\ IsEdit(req) /\ req.method = "POST" /\ Permitted(req) /\ FormValid(req)
    /\ uploads = 2
    /\ revisions[Len(revisions)].attachment = Len(attachments)
    /\ response.kind = "redirect"

----------------------------------------------------------------------------
(* C2 *)

\* C2 as stated: a POST by an authenticated user without upload permission
\* gets 403 and leaves attachments, revisions and links unchanged, whatever
\* the form holds (and whatever document the path names).
C2_Original ==
    [][ (IsEdit(req') /\ req'.method = "POST" /\ Authenticated(req')
            /\ ~Permitted(req'))
        => /\ response'.kind = "forbidden" /\ response'.status = 403
           /\ StoreUnchanged ]_vars

\* C2, amended: a POST by an authenticated user without upload permission,
\* for an existing document, gets 403 and leaves attachments, revisions and
\* links unchanged, whatever the form holds.
C2_NoPermissionIsForbidden ==
    [][ (IsEdit(req') /\ req'.method = "POST" /\ Authenticated(req')
            /\ ~Permitted(req') /\ DocumentFound(req'))
        => /\ response'.kind = "forbidden" /\ response'.status = 403
           /\ StoreUnchanged ]_vars

\* a user without permission has posted a valid form and got 403
C2_Witness ==
    /\ IsEdit(req) /\ req.method = "POST" /\ Authenticated(req) /\ ~Permitted(req)
    /\ DocumentFound(req) /\ FormValid(req)
    /\ response.status = 403

----------------------------------------------------------------------------
(* C3 *)

\* C3: a POST by a permitted user, for a document that resolves, whose form
\* lacks a required field gets a 200 response that renders the upload form
\* template with the bound form (the submitted data and a non-empty set of
\* errors) and the document in context, and attachments, revisions and
\* links stay as they were.
C3_InvalidFormRerenders ==
    [][ (IsEdit(req') /\ req'.method = "POST" /\ Permitted(req')
            /\ DocumentFound(req') /\ ~FormValid(req'))
        => /\ response'.kind = "render" /\ response'.status = 200
           /\ response'.context.template = "attachments/edit_attachment.html"
           /\ response'.context.form_title = req'.title
           /\ response'.context.form_file = req'.file
           /\ response'.context.form_errors # {}
           /\ response'.context.document = req'.path
           /\ StoreUnchanged ]_vars

\* a permitted user has posted a form with a title but no file
C3_Witness ==
    /\ IsEdit(req) /\ req.method = "POST" /\ Permitted(req) /\ DocumentFound(req)
    /\ req.title \in Titles /\ req.file = NoFile
    /\ response.status = 200
    /\ "file" \in response.context.form_errors

----------------------------------------------------------------------------
(* C4 *)

\* C4: raw_file answers 404 whenever the identifier names no attachment or
\* names one without a current revision, on trusted and untrusted requests
\* alike; nothing is read or streamed and no redirect is issued.
C4_NoCurrentRevisionIs404 ==
    (IsRawFile(req) /\ ~HasCurrentRevision(req))
        => /\ response.kind = "not_found" /\ response.status = 404
           /\ response.location = <<>> /\ response.body = <<>>
           /\ io.reads = 0 /\ ~io.streamed

\* a trusted request has named an attachment that exists but has no current
\* revision
C4_Witness ==
    /\ IsRawFile(req) /\ ~Untrusted(req)
    /\ req.attachment_id \in 1..Len(attachments)
    /\ attachments[req.attachment_id].current_revision = NULL
    /\ response.status = 404

----------------------------------------------------------------------------
(* C5 *)

\* C5: for an attachment with a current revision, an untrusted raw_file
\* request gets 200 with the whole stored file of that revision as body and
\* its MIME type as Content-Type, with DEBUG on as with DEBUG off.
C5_UntrustedStreamsWholeFile ==
    (IsRawFile(req) /\ HasCurrentRevision(req) /\ Untrusted(req))
        => /\ response.kind = "stream" /\ response.status = 200
           /\ response.body = CurrentRevision(req).file
           /\ response.content_type = CurrentRevision(req).mime_type

\* with DEBUG on, an uploaded file longer than a chunk has been streamed
C5_Witness ==
    /\ DEBUG
    /\ IsRawFile(req) /\ HasCurrentRevision(req) /\ Untrusted(req)
    /\ Len(CurrentRevision(req).file) > DEFAULT_CHUNK_SIZE
    /\ response.kind = "stream"
    /\ io.reads > 2

----------------------------------------------------------------------------
(* C6 *)

\* C6: for an attachment with a current revision, a trusted raw_file request
\* gets a permanent redirect to the attachment's canonical file URL, with no
\* read of the file and no streaming response; and the outcome is a stream
\* exactly when the request is untrusted, a redirect exactly when it is
\* trusted.
C6_TrustedRedirectsNeverStreams ==
    (IsRawFile(req) /\ HasCurrentRevision(req))
        => /\ response.kind \in {"stream", "redirect"}
           /\ (response.kind = "stream") <=> Untrusted(req)
           /\ (response.kind = "redirect") <=> ~Untrusted(req)
           /\ ~Untrusted(req)
                => /\ RedirectsTo(response, 301, CanonicalFileUrl(req.attachment_id))
                   /\ response.body = <<>>
                   /\ io.reads = 0 /\ ~io.streamed

\* a trusted request for an uploaded attachment has been redirected
C6_Witness ==
    /\ IsRawFile(req) /\ HasCurrentRevision(req) /\ ~Untrusted(req)
    /\ req.attachment_id > Len(InitAttachments)
    /\ response.status = 301

----------------------------------------------------------------------------
(* C7 *)

----------------------------------------------------------------------------
(* C8 *)

\* the attachments whose legacy identifier is the one the request names
LegacyHolders(r) ==
    {pk \in 1..Len(attachments) : attachments[pk].mindtouch_attachment_id = r.file_id}

\* C8: mindtouch_file_redirect answers 404 when no attachment has the legacy
\* identifier, and otherwise a permanent redirect to the canonical file URL
\* of the attachment that has it; the store is left as it was, so the
\* response is a function of the store and the identifier.
C8_LegacyRedirect ==
    [][ IsLegacy(req')
        => /\ StoreUnchanged
           /\ LegacyHolders(req') = {}
                => response'.kind = "not_found" /\ response'.status = 404
           /\ LegacyHolders(req') # {}
                => \E pk \in LegacyHolders(req') :
                       RedirectsTo(response', 301, CanonicalFileUrl(pk)) ]_vars

\* after an upload, a legacy identifier equal to the new attachment's primary
\* key has been looked up and not found
C8_Witness ==
    /\ IsLegacy(req) /\ uploads > 0
    /\ req.file_id \in 1..Len(attachments)
    /\ LegacyHolders(req) = {}
    /\ response.status = 404

----------------------------------------------------------------------------
(* C9 *)

\* C9: a non-POST request by an authenticated user for an existing document
\* is redirected to the document's edit URL and changes no attachment,
\* revision or link, whether or not the user has upload permission.
C9_NonPostRedirects ==
    [][ (IsEdit(req') /\ req'.method # "POST" /\ Authenticated(req')
            /\ DocumentFound(req'))
        => /\ RedirectsTo(response', 302, EditUrl(req'))
           /\ StoreUnchanged ]_vars

\* a user without upload permission has made a GET and was redirected
C9_Witness ==
    /\ IsEdit(req) /\ req.method = "GET" /\ Authenticated(req) /\ ~Permitted(req)
    /\ DocumentFound(req)
    /\ response.kind = "redirect"

----------------------------------------------------------------------------
(* C10 *)

\* C10: edit_attachment's guards are tried in the order authentication,
\* document lookup, method, permission, form validity, and the first one
\* that fails decides the response: login challenge, 404, redirect to the
\* edit URL, 403, 200 re-render.  The store changes only when all five pass.
C10_GuardOrder ==
    [][ IsEdit(req')
        => /\ ~Authenticated(req')
                => RedirectsTo(response', 302, LoginUrl(req'))
           /\ (Authenticated(req') /\ ~DocumentFound(req'))
                => response'.kind = "not_found" /\ response'.status = 404
           /\ (Authenticated(req') /\ DocumentFound(req') /\ req'.method # "POST")
                => RedirectsTo(response', 302, EditUrl(req'))
           /\ (Authenticated(req') /\ DocumentFound(req') /\ req'.method = "POST"
                    /\ ~Permitted(req'))
                => response'.kind = "forbidden" /\ response'.status = 403
           /\ (Authenticated(req') /\ DocumentFound(req') /\ req'.method = "POST"
                    /\ Permitted(req') /\ ~FormValid(req'))
                => response'.kind = "render" /\ response'.status = 200
           /\ ~StoreUnchanged
                => (Authenticated(req') /\ DocumentFound(req')
                        /\ req'.method = "POST" /\ Permitted(req') /\ FormValid(req')) ]_vars

\* an anonymous caller has posted to a path that names no document and got
\* the login challenge
C10_Witness ==
    /\ IsEdit(req) /\ ~Authenticated(req) /\ ~DocumentFound(req)
    /\ req.method = "POST"
    /\ response.kind = "redirect" /\ response.location = LoginUrl(req)

====
